---------------------------- MODULE Spec2Model ----------------------------
(***************************************************************************)
(* ArchiveVerifier.py: incremental verification of archive files.          *)
(*                                                                         *)
(* One invocation (main -> process_directory) scans the directory, merges  *)
(* the snapshot with the store file result_<hash>.json, rewrites the store *)
(* file, and then verifies every pending file in a thread pool; each task  *)
(* (process_file) runs the external verifier, reloads the store file,      *)
(* updates its record and replaces the store file.  A SIGINT handler sets  *)
(* exit_flag and terminates the registered verifier processes.             *)
(*                                                                         *)
(* Paths are numbered in their lexicographic order.  A timestamp of 0 in   *)
(* a snapshot means "no such file"; NoRec means "no such key".             *)
(***************************************************************************)
EXTENDS Integers, FiniteSets, Sequences, TLC

\* ------------------------------------------------------------------ bounds
MaxTs == 2
MaxThreads == 2

\* candidate paths; the invocations of Spec and SpecOverlap see the first two
Paths == {1, 2, 3}
TwoPaths == {1, 2}
Timestamps == 1..MaxTs

\* ------------------------------------------------------------- data model
Results == {"unchecked", "success", "failure", "encrypted", "deleted"}
Terminal == {"success", "failure", "encrypted"}

NoRec == [result |-> "none", timestamp |-> 0]

\* a 'files' mapping: path -> record, NoRec where the path is no key
EmptyFiles == [p \in Paths |-> NoRec]
Keys(files) == {p \in Paths : files[p] # NoRec}

\* the store file on disk: absent, unparseable (empty or a prefix of the
\* JSON text, as left by open(..., 'w') before json.dump has finished), or a
\* complete document
AbsentStore == [kind |-> "absent", files |-> EmptyFiles]
TruncatedStore == [kind |-> "truncated", files |-> EmptyFiles]
StoreOf(files) == [kind |-> "ok", files |-> files]

VARIABLES
    disk,              \* physical candidate files: path -> mtime, 0 = absent
    dir_exists,        \* the target directory exists
    seven_zip,         \* the verifier path resolves
    store,             \* content of the store file
    store_at_start,    \* content of the store file when the invocation began
    pc,                \* position of the main thread
    threads,           \* max_workers of the pool (--threads)
    abort,             \* why the invocation ended early ("none" if it did not)
    physical_files,    \* process_directory: result of scan_physical_files
    existing_files,    \* process_directory: data.get('files') before the merge
    data,              \* process_directory: data['files']
    unchecked_files,   \* process_directory: the pending list
    exit_flag,         \* global termination flag
    hpc,               \* position of signal_handler ("none" when not running)
    current_processes, \* registry: paths whose process handle is registered
    proc,              \* verifier process per path
    returncode,        \* its exit status (0, or 1 for any non-zero status)
    is_encrypted,      \* its transcript contains an encryption keyword
    tpc,               \* position of the task of each path
    tdata,             \* process_file: data['files'] as loaded by the task
    temp,              \* paths whose task's temp file exists
    task_error,        \* paths whose task printed process_error
    opc,               \* position of a second, overlapping invocation
    o_physical_files,  \* its physical_files
    o_data             \* its data['files']

envVars == <<disk, dir_exists, seven_zip>>
mainVars == <<pc, threads, abort, physical_files, existing_files, data,
              unchecked_files>>
sigVars == <<exit_flag, hpc>>
procVars == <<current_processes, proc, returncode, is_encrypted>>
taskVars == <<tpc, tdata, temp, task_error>>
overlapVars == <<opc, o_physical_files, o_data>>
vars == <<disk, dir_exists, seven_zip, store, store_at_start, pc,
          threads, abort, physical_files, existing_files, data,
          unchecked_files, exit_flag, hpc, current_processes, proc,
          returncode, is_encrypted, tpc, tdata, temp, task_error, opc,
          o_physical_files, o_data>>

\* --------------------------------------------------------- pure functions

\* scan_physical_files: every candidate file with its st_mtime_ns
scan_physical_files == disk

\* MergeRecord with the update of lines 149-152 setting the timestamp only
MergeRecord_KeepResult(existing, physical, p) ==
    IF existing[p] # NoRec
    THEN IF physical[p] = 0
         THEN IF existing[p].result # "deleted"
              THEN [result |-> "deleted", timestamp |-> existing[p].timestamp]
              ELSE NoRec
         ELSE [existing[p] EXCEPT !.timestamp = physical[p]]
    ELSE IF physical[p] # 0
         THEN [result |-> "unchecked", timestamp |-> physical[p]]
         ELSE NoRec

\* MergeRecord with the record of an absent file copied as it is
MergeRecord_KeepAbsent(existing, physical, p) ==
    IF existing[p] # NoRec
    THEN IF physical[p] = 0
         THEN existing[p]
         ELSE IF existing[p].timestamp # physical[p]
              THEN [result |-> "unchecked", timestamp |-> physical[p]]
              ELSE existing[p]
    ELSE IF physical[p] # 0
         THEN [result |-> "unchecked", timestamp |-> physical[p]]
         ELSE NoRec

\* merge_file_records, the record of one path
MergeRecord(existing, physical, p) ==
    IF existing[p] # NoRec
    THEN IF physical[p] = 0
         THEN IF existing[p].result # "deleted"
              THEN [result |-> "deleted", timestamp |-> existing[p].timestamp]
              ELSE NoRec
         ELSE IF existing[p].timestamp # physical[p]
              THEN [result |-> "unchecked", timestamp |-> physical[p]]
              ELSE existing[p]
    ELSE IF physical[p] # 0
         THEN [result |-> "unchecked", timestamp |-> physical[p]]
         ELSE NoRec

\* merge_file_records; the final sort by path leaves the mapping as it is
merge_file_records(existing, physical) ==
    [p \in Paths |-> MergeRecord(existing, physical, p)]

\* process_directory, the pending list: unchecked records whose file exists
Pending(files) ==
    {p \in Paths : files[p] # NoRec /\ files[p].result = "unchecked"
                   /\ disk[p] # 0}

\* Classify without the exit_flag test of line 217
Classify_NoFlag(old, rc, enc, flag) ==
    IF rc = 0 THEN "success"
    ELSE IF enc THEN "encrypted"
    ELSE "failure"

\* Classify with the exit_flag test ahead of the keyword test
Classify_FlagFirst(old, rc, enc, flag) ==
    IF rc = 0 THEN "success"
    ELSE IF flag THEN old
    ELSE IF enc THEN "encrypted"
    ELSE "failure"

\* process_file, lines 211-221: the result written for a record that is
\* present and not deleted
Classify(old, rc, enc, flag) ==
    IF rc = 0 THEN "success"
    ELSE IF enc THEN "encrypted"
    ELSE IF ~flag THEN "failure"
    ELSE old

\* process_file, the update of the loaded data
ApplyResult(files, p, rc, enc, flag) ==
    IF files[p] # NoRec /\ files[p].result # "deleted"
    THEN [files EXCEPT ![p].result = Classify(files[p].result, rc, enc, flag)]
    ELSE files


\* ------------------------------------------------------------ initial state
Init ==
    /\ disk = [p \in Paths |-> 0]
    /\ dir_exists = TRUE
    /\ seven_zip = TRUE
    /\ store = AbsentStore
    /\ store_at_start = AbsentStore
    /\ pc = "exit"
    /\ threads = 1
    /\ abort = "none"
    /\ physical_files = [p \in Paths |-> 0]
    /\ existing_files = EmptyFiles
    /\ data = EmptyFiles
    /\ unchecked_files = {}
    /\ exit_flag = FALSE
    /\ hpc = "none"
    /\ current_processes = {}
    /\ proc = [p \in Paths |-> "none"]
    /\ returncode = [p \in Paths |-> 0]
    /\ is_encrypted = [p \in Paths |-> FALSE]
    /\ tpc = [p \in Paths |-> "none"]
    /\ tdata = [p \in Paths |-> EmptyFiles]
    /\ temp = {}
    /\ task_error = {}
    /\ opc = "none"
    /\ o_physical_files = [p \in Paths |-> 0]
    /\ o_data = EmptyFiles

\* the state of a process that has not started process_directory yet
FreshProcess ==
    /\ physical_files' = [p \in Paths |-> 0]
    /\ existing_files' = EmptyFiles
    /\ data' = EmptyFiles
    /\ unchecked_files' = {}
    /\ exit_flag' = FALSE
    /\ hpc' = "none"
    /\ current_processes' = {}
    /\ proc' = [p \in Paths |-> "none"]
    /\ returncode' = [p \in Paths |-> 0]
    /\ is_encrypted' = [p \in Paths |-> FALSE]
    /\ tpc' = [p \in Paths |-> "none"]
    /\ tdata' = [p \in Paths |-> EmptyFiles]
    /\ temp' = {}
    /\ task_error' = {}

\* ------------------------------------------------------------- environment
\* The filesystem is read by the scan (line 249) and by Path(path).exists()
\* (line 274), the verifier path at lines 331 and 279: changes are taken
\* between invocations and before the scan of an overlapping invocation;
\* between the scan and the later reads of the same invocation only a removal
\* can change what those reads return (a pending record's file was there at
\* the scan, the verifier path resolved at line 331).
EnvPoint(removal) ==
    \/ pc = "exit"
    \/ pc = "written" /\ removal
    \/ opc = "scan"

\* a candidate file is created, modified or removed
DiskChange(p, t) ==
    /\ EnvPoint(t = 0)
    /\ dir_exists
    /\ disk[p] # t
    /\ disk' = [disk EXCEPT ![p] = t]
    /\ UNCHANGED <<dir_exists, seven_zip, store, store_at_start, mainVars,
                   sigVars, procVars, taskVars>>
    /\ UNCHANGED overlapVars

\* the target directory is removed or created between invocations
DirChange ==
    /\ pc = "exit"
    /\ dir_exists' = ~dir_exists
    /\ disk' = [p \in Paths |-> 0]
    /\ UNCHANGED <<seven_zip, store, store_at_start, mainVars, sigVars,
                   procVars, taskVars>>
    /\ UNCHANGED overlapVars

\* the verifier executable is removed or installed
SevenZipChange ==
    /\ EnvPoint(seven_zip) /\ opc # "scan"
    /\ seven_zip' = ~seven_zip
    /\ UNCHANGED <<disk, dir_exists, store, store_at_start, mainVars, sigVars,
                   procVars, taskVars>>
    /\ UNCHANGED overlapVars

\* ------------------------------------------------------------- main thread
\* the program is started: a new process, globals at their initial values
Main_Start ==
    /\ pc = "exit"
    /\ threads' = 1
    /\ pc' = "main"
    /\ abort' = "none"
    /\ store_at_start' = store
    /\ FreshProcess
    /\ UNCHANGED <<envVars, store>>
    /\ opc = "none"
    /\ UNCHANGED overlapVars

\* main, lines 325-336: the precondition checks
Main_Checks ==
    /\ pc = "main"
    /\ IF ~dir_exists THEN pc' = "done" /\ abort' = "dir_not_exist"
       ELSE IF ~seven_zip THEN pc' = "done" /\ abort' = "7z_not_found"
       ELSE pc' = "scan" /\ abort' = abort
    /\ UNCHANGED <<envVars, store, store_at_start, threads,
                   physical_files, existing_files, data, unchecked_files,
                   sigVars, procVars, taskVars>>
    /\ UNCHANGED overlapVars

\* process_directory, lines 242-249: install the handler, scan
PD_Scan ==
    /\ pc = "scan" /\ hpc = "none"
    /\ physical_files' = scan_physical_files
    /\ pc' = "load"
    /\ UNCHANGED <<envVars, store, store_at_start, threads, abort,
                   existing_files, data, unchecked_files, sigVars, procVars,
                   taskVars>>
    /\ UNCHANGED overlapVars

\* PD_Load with an unparseable store file taken as an empty store
PD_Load_Fallback ==
    /\ pc = "load" /\ hpc = "none"
    /\ CASE store.kind = "ok" ->
              data' = store.files /\ pc' = "merge" /\ abort' = abort
         [] OTHER ->
              data' = EmptyFiles /\ pc' = "merge" /\ abort' = abort
    /\ UNCHANGED <<envVars, store, store_at_start, threads,
                   physical_files, existing_files, unchecked_files, sigVars,
                   procVars, taskVars>>
    /\ UNCHANGED overlapVars

\* process_directory, lines 252-259: initialise or load; json.load raises on
\* an unparseable file and the exception leaves main
PD_Load ==
    /\ pc = "load" /\ hpc = "none"
    /\ CASE store.kind = "absent" ->
              data' = EmptyFiles /\ pc' = "merge" /\ abort' = abort
         [] store.kind = "ok" ->
              data' = store.files /\ pc' = "merge" /\ abort' = abort
         [] OTHER ->
              data' = data /\ pc' = "done" /\ abort' = "JSONDecodeError"
    /\ UNCHANGED <<envVars, store, store_at_start, threads,
                   physical_files, existing_files, unchecked_files, sigVars,
                   procVars, taskVars>>
    /\ UNCHANGED overlapVars

\* process_directory, lines 262-264
PD_Merge ==
    /\ pc = "merge" /\ hpc = "none"
    /\ existing_files' = data
    /\ data' = merge_file_records(data, physical_files)
    /\ pc' = "open"
    /\ UNCHANGED <<envVars, store, store_at_start, threads, abort,
                   physical_files, unchecked_files, sigVars, procVars,
                   taskVars>>
    /\ UNCHANGED overlapVars

\* process_directory, line 267: open(result_file, 'w') creates or truncates
PD_Open ==
    /\ pc = "open" /\ hpc = "none"
    /\ store' = TruncatedStore
    /\ pc' = "dump"
    /\ UNCHANGED <<envVars, store_at_start, threads, abort,
                   physical_files, existing_files, data, unchecked_files,
                   sigVars, procVars, taskVars>>
    /\ UNCHANGED overlapVars

\* process_directory, line 268: json.dump and close
PD_Dump ==
    /\ pc = "dump" /\ hpc = "none"
    /\ store' = StoreOf(data)
    /\ pc' = "written"
    /\ UNCHANGED <<envVars, store_at_start, threads, abort,
                   physical_files, existing_files, data, unchecked_files,
                   sigVars, procVars, taskVars>>
    /\ UNCHANGED overlapVars

\* process_directory, lines 271-277
PD_Pending ==
    /\ pc = "written" /\ hpc = "none"
    /\ unchecked_files' = Pending(data)
    /\ pc' = "verify7z"
    /\ UNCHANGED <<envVars, store, store_at_start, threads, abort,
                   physical_files, existing_files, data, sigVars, procVars,
                   taskVars>>
    /\ UNCHANGED overlapVars

\* process_directory, lines 279-283: FileNotFoundError leaves main; otherwise
\* the pool is created with max_workers=threads, an input of the invocation
\* that is first read here.  physical_files
\* and existing_files are not read after line 264: they, and the record of
\* the store file's initial content, leave the state when tasks are about to
\* be dispatched (they stay when nothing is pending).
PD_Verify7z ==
    /\ pc = "verify7z" /\ hpc = "none"
    /\ IF ~seven_zip
       THEN /\ pc' = "done" /\ abort' = "FileNotFoundError"
            /\ UNCHANGED <<store_at_start, physical_files, existing_files,
                           threads>>
       ELSE /\ pc' = "submit" /\ abort' = abort
            /\ \E t \in 1..MaxThreads : threads' = t
            /\ IF unchecked_files = {}
               THEN UNCHANGED <<store_at_start, physical_files,
                                existing_files>>
               ELSE /\ store_at_start' = AbsentStore
                    /\ physical_files' = [p \in Paths |-> 0]
                    /\ existing_files' = EmptyFiles
    /\ UNCHANGED <<envVars, store, data, unchecked_files, sigVars, procVars,
                   taskVars>>
    /\ UNCHANGED overlapVars

Unsubmitted == {p \in unchecked_files : tpc[p] = "none"}

\* process_directory, lines 284-288: one iteration of the submit loop, in
\* list order
PD_Submit ==
    /\ pc = "submit" /\ hpc = "none"
    /\ IF exit_flag \/ Unsubmitted = {}
       THEN pc' = "wait" /\ tpc' = tpc
       ELSE LET p == CHOOSE q \in Unsubmitted : \A r \in Unsubmitted : q <= r
            IN  tpc' = [tpc EXCEPT ![p] = "queued"] /\ pc' = "submit"
    /\ UNCHANGED <<envVars, store, store_at_start, threads, abort,
                   physical_files, existing_files, data, unchecked_files,
                   sigVars, procVars, tdata, temp, task_error>>
    /\ UNCHANGED overlapVars

\* a task that has ended: returned at its cancellation check, or left its
\* finally block
Ended == {"skipped", "done"}
\* a task that occupies a worker thread
Active == {"popen", "register", "communicate", "update", "writetmp",
           "replace", "finally"}

\* process_directory, lines 291-298 and the end of the with block: the
\* completion loop changes no state; ThreadPoolExecutor.__exit__ waits for
\* every submitted task
PD_Join ==
    /\ pc = "wait" /\ hpc = "none"
    /\ \A p \in Paths : tpc[p] \in Ended \cup {"none"}
    /\ pc' = "done"
    /\ UNCHANGED <<envVars, store, store_at_start, threads, abort,
                   physical_files, existing_files, data, unchecked_files,
                   sigVars, procVars, taskVars>>
    /\ UNCHANGED overlapVars

\* the process exits
Main_Exit ==
    /\ pc = "done"
    /\ pc' = "exit"
    /\ store_at_start' = store
    /\ threads' = 1
    /\ FreshProcess
    /\ UNCHANGED <<envVars, store, abort>>
    /\ UNCHANGED overlapVars

\* the process is killed (or the machine stops) at any point of a run
Crash ==
    /\ pc \notin {"exit", "done"}
    /\ pc' = "done"
    /\ abort' = "killed"
    /\ hpc' = "none"
    /\ tpc' = [p \in Paths |-> IF tpc[p] \in Ended THEN tpc[p] ELSE "killed"]
    /\ UNCHANGED <<envVars, store, store_at_start, threads,
                   physical_files, existing_files, data, unchecked_files,
                   exit_flag, procVars, tdata, temp, task_error>>
    /\ UNCHANGED overlapVars

\* ------------------------------------------------------------ process_file
\* T_Begin with a pool that starts every queued task at once
T_Begin_NoLimit(p) ==
    /\ tpc[p] = "queued"
    /\ \A q \in Paths : tpc[q] = "queued" => p <= q
    /\ tpc' = [tpc EXCEPT ![p] = IF exit_flag THEN "skipped" ELSE "popen"]
    /\ UNCHANGED <<envVars, store, store_at_start, mainVars, sigVars,
                   procVars, tdata, temp, task_error>>
    /\ UNCHANGED overlapVars

\* line 178: a worker thread takes the oldest queued task
T_Begin(p) ==
    /\ tpc[p] = "queued"
    /\ \A q \in Paths : tpc[q] = "queued" => p <= q
    /\ Cardinality({q \in Paths : tpc[q] \in Active}) < threads
    /\ tpc' = [tpc EXCEPT ![p] = IF exit_flag THEN "skipped" ELSE "popen"]
    /\ UNCHANGED <<envVars, store, store_at_start, mainVars, sigVars,
                   procVars, tdata, temp, task_error>>
    /\ UNCHANGED overlapVars

\* lines 185-191: the verifier process is started
T_Popen(p) ==
    /\ tpc[p] = "popen"
    /\ proc' = [proc EXCEPT ![p] = "running"]
    /\ tpc' = [tpc EXCEPT ![p] = "register"]
    /\ UNCHANGED <<envVars, store, store_at_start, mainVars, sigVars,
                   current_processes, returncode, is_encrypted, tdata, temp,
                   task_error>>
    /\ UNCHANGED overlapVars

\* lines 194-195, under current_processes_lock (signal_handler holds the
\* lock within SH_Terminate, which is one step, and for ever once blocked)
T_Register(p) ==
    /\ tpc[p] = "register"
    /\ hpc # "blocked"
    /\ current_processes' = current_processes \cup {p}
    /\ tpc' = [tpc EXCEPT ![p] = "communicate"]
    /\ UNCHANGED <<envVars, store, store_at_start, mainVars, sigVars, proc,
                   returncode, is_encrypted, tdata, temp, task_error>>
    /\ UNCHANGED overlapVars

\* the verifier process ends by itself, with any exit status and transcript
ProcExit(p) ==
    /\ proc[p] = "running"
    /\ proc' = [proc EXCEPT ![p] = "exited"]
    /\ \E rc \in {0, 1} : returncode' = [returncode EXCEPT ![p] = rc]
    /\ \E enc \in BOOLEAN : is_encrypted' = [is_encrypted EXCEPT ![p] = enc]
    /\ UNCHANGED <<envVars, store, store_at_start, mainVars, sigVars,
                   current_processes, taskVars>>
    /\ UNCHANGED overlapVars

\* lines 197-201: communicate() returns once the process has ended
T_Communicate(p) ==
    /\ tpc[p] = "communicate"
    /\ proc[p] \in {"exited", "terminated"}
    /\ tpc' = [tpc EXCEPT ![p] = "update"]
    /\ UNCHANGED <<envVars, store, store_at_start, mainVars, sigVars,
                   procVars, tdata, temp, task_error>>
    /\ UNCHANGED overlapVars

\* lines 204-223: the lock is a new threading.Lock() per call and excludes
\* no other task; load the store file and update the record
T_Update(p) ==
    /\ tpc[p] = "update"
    /\ store.kind = "ok"
    /\ tdata' = [tdata EXCEPT ![p] =
                   ApplyResult(store.files, p, returncode[p], is_encrypted[p],
                               exit_flag)]
    /\ tpc' = [tpc EXCEPT ![p] = "writetmp"]
    /\ UNCHANGED <<envVars, store, store_at_start, mainVars, sigVars,
                   procVars, temp, task_error>>
    /\ UNCHANGED overlapVars

\* T_WriteTmp with the store file itself opened for writing
T_WriteTmp_InPlace(p) ==
    /\ tpc[p] = "writetmp"
    /\ store' = TruncatedStore
    /\ temp' = temp \cup {p}
    /\ tpc' = [tpc EXCEPT ![p] = "replace"]
    /\ UNCHANGED <<envVars, store_at_start, mainVars, sigVars, procVars,
                   tdata, task_error>>
    /\ UNCHANGED overlapVars

\* lines 225-226
T_WriteTmp(p) ==
    /\ tpc[p] = "writetmp"
    /\ temp' = temp \cup {p}
    /\ tpc' = [tpc EXCEPT ![p] = "replace"]
    /\ UNCHANGED <<envVars, store, store_at_start, mainVars, sigVars,
                   procVars, tdata, task_error>>
    /\ UNCHANGED overlapVars

\* line 228: os.replace(temp_file, result_file)
T_Replace(p) ==
    /\ tpc[p] = "replace"
    /\ store' = StoreOf(tdata[p])
    /\ temp' = temp \ {p}
    /\ tdata' = [tdata EXCEPT ![p] = EmptyFiles]
    /\ tpc' = [tpc EXCEPT ![p] = "finally"]
    /\ UNCHANGED <<envVars, store_at_start, mainVars, sigVars, procVars,
                   task_error>>
    /\ UNCHANGED overlapVars

\* lines 230-233: Popen, the load, the temp write or the replace raises
\* (launch failure, unparseable store file, I/O error)
T_Error(p) ==
    /\ tpc[p] \in {"popen", "update", "writetmp", "replace"}
    /\ task_error' = task_error \cup {p}
    /\ temp' = temp \ {p}
    /\ tdata' = [tdata EXCEPT ![p] = EmptyFiles]
    /\ tpc' = [tpc EXCEPT ![p] = "finally"]
    /\ UNCHANGED <<envVars, store, store_at_start, mainVars, sigVars,
                   procVars>>
    /\ UNCHANGED overlapVars

\* lines 234-238, under current_processes_lock
T_Finally(p) ==
    /\ tpc[p] = "finally"
    /\ hpc # "blocked"
    /\ current_processes' = current_processes \ {p}
    /\ tpc' = [tpc EXCEPT ![p] = "done"]
    /\ UNCHANGED <<envVars, store, store_at_start, mainVars, sigVars, proc,
                   returncode, is_encrypted, tdata, temp, task_error>>
    /\ UNCHANGED overlapVars

\* ---------------------------------------------------------- signal_handler
\* the handler is installed at line 242 and runs on the main thread
HandlerInstalled ==
    pc \in {"scan", "load", "merge", "open", "dump", "written", "verify7z",
            "submit", "wait"}

\* lines 97-99; SIGINT may arrive any number of times
SH_Flag ==
    /\ HandlerInstalled
    /\ hpc = "none"
    /\ exit_flag' = TRUE
    /\ hpc' = "terminate"
    /\ UNCHANGED <<envVars, store, store_at_start, mainVars, procVars,
                   taskVars>>
    /\ UNCHANGED overlapVars

\* lines 102-105, under current_processes_lock: every registered process
\* that is still running is terminated
SH_Terminate ==
    /\ hpc = "terminate"
    /\ \E enc \in [Paths -> BOOLEAN] :
         LET hit == {p \in current_processes : proc[p] = "running"}
         IN  /\ \A p \in Paths \ hit : enc[p] = is_encrypted[p]
             /\ proc' = [p \in Paths |->
                           IF p \in hit THEN "terminated" ELSE proc[p]]
             /\ returncode' = [p \in Paths |->
                                 IF p \in hit THEN 1 ELSE returncode[p]]
             /\ is_encrypted' = enc
    /\ hpc' = "none"
    /\ UNCHANGED <<envVars, store, store_at_start, mainVars, exit_flag,
                   current_processes, taskVars>>
    /\ UNCHANGED overlapVars

\* A second SIGINT is delivered while signal_handler holds
\* current_processes_lock (lines 102-105): Python runs the handler again on
\* the main thread, on top of the interrupted one, and its line 102 waits for
\* a threading.Lock that the interrupted handler below it holds.  The loop
\* has terminated some of the registered processes by then.  (A second
\* SIGINT before line 102 has taken the lock is two handlers in a row.)
SH_Reenter ==
    /\ hpc = "terminate"
    /\ \E hit \in SUBSET {p \in current_processes : proc[p] = "running"} :
         \E enc \in [Paths -> BOOLEAN] :
             /\ \A p \in Paths \ hit : enc[p] = is_encrypted[p]
             /\ proc' = [p \in Paths |->
                           IF p \in hit THEN "terminated" ELSE proc[p]]
             /\ returncode' = [p \in Paths |->
                                 IF p \in hit THEN 1 ELSE returncode[p]]
             /\ is_encrypted' = enc
    /\ hpc' = "blocked"
    /\ UNCHANGED <<envVars, store, store_at_start, mainVars, exit_flag,
                   current_processes, taskVars>>
    /\ UNCHANGED overlapVars

\* ----------------------------------------------------------- specification
Next ==
    \/ \E p \in TwoPaths, t \in {0} \cup Timestamps : DiskChange(p, t)
    \/ DirChange
    \/ SevenZipChange
    \/ Main_Start
    \/ Main_Checks
    \/ PD_Scan
    \/ PD_Load
    \/ PD_Merge
    \/ PD_Open
    \/ PD_Dump
    \/ PD_Pending
    \/ PD_Verify7z
    \/ PD_Submit
    \/ PD_Join
    \/ Main_Exit
    \/ Crash
    \/ \E p \in Paths : T_Begin(p)
    \/ \E p \in Paths : T_Popen(p)
    \/ \E p \in Paths : T_Register(p)
    \/ \E p \in Paths : ProcExit(p)
    \/ \E p \in Paths : T_Communicate(p)
    \/ \E p \in Paths : T_Update(p)
    \/ \E p \in Paths : T_WriteTmp(p)
    \/ \E p \in Paths : T_Replace(p)
    \/ \E p \in Paths : T_Error(p)
    \/ \E p \in Paths : T_Finally(p)
    \/ SH_Flag
    \/ SH_Terminate
    \/ SH_Reenter

Spec == Init /\ [][Next]_vars

\* ------------------------------------------------- overlapping invocation
\* The program is started a second time on the same directory and output
\* directory while tasks of the first invocation are in flight.  The second
\* process runs process_directory up to its write of the store file (its own
\* dispatch is left out: it is, for instance, interrupted before line 284).
\* No further invocation is started after an overlapping one.
O_Start ==
    /\ pc \in {"submit", "wait"}
    /\ \E p \in Paths : tpc[p] \in Active
    /\ opc = "none"
    /\ opc' = "scan"
    /\ UNCHANGED <<envVars, store, store_at_start, mainVars, sigVars,
                   procVars, taskVars, o_physical_files, o_data>>

\* line 249
O_Scan ==
    /\ opc = "scan"
    /\ o_physical_files' = scan_physical_files
    /\ opc' = "load"
    /\ UNCHANGED <<envVars, store, store_at_start, mainVars, sigVars,
                   procVars, taskVars, o_data>>

\* lines 252-264: load (json.load raises on an unparseable file) and merge
O_Load ==
    /\ opc = "load"
    /\ CASE store.kind = "absent" ->
              /\ o_data' = merge_file_records(EmptyFiles, o_physical_files)
              /\ opc' = "open"
         [] store.kind = "ok" ->
              /\ o_data' = merge_file_records(store.files, o_physical_files)
              /\ opc' = "open"
         [] OTHER ->
              /\ o_data' = o_data
              /\ opc' = "finished"
    /\ o_physical_files' = [p \in Paths |-> 0]
    /\ UNCHANGED <<envVars, store, store_at_start, mainVars, sigVars,
                   procVars, taskVars>>

\* line 267
O_Open ==
    /\ opc = "open"
    /\ store' = TruncatedStore
    /\ opc' = "dump"
    /\ UNCHANGED <<envVars, store_at_start, mainVars, sigVars, procVars,
                   taskVars, o_physical_files, o_data>>

\* line 268
O_Dump ==
    /\ opc = "dump"
    /\ store' = StoreOf(o_data)
    /\ opc' = "finished"
    /\ o_data' = EmptyFiles
    /\ UNCHANGED <<envVars, store_at_start, mainVars, sigVars, procVars,
                   taskVars, o_physical_files>>

\* the first invocation without signals, kills and environment faults, and
\* the second one
NextOverlap ==
    \/ \E p \in TwoPaths, t \in {0} \cup Timestamps : DiskChange(p, t)
    \/ Main_Start
    \/ Main_Checks
    \/ PD_Scan
    \/ PD_Load
    \/ PD_Merge
    \/ PD_Open
    \/ PD_Dump
    \/ PD_Pending
    \/ PD_Verify7z
    \/ PD_Submit
    \/ PD_Join
    \/ Main_Exit
    \/ \E p \in Paths : T_Begin(p)
    \/ \E p \in Paths : T_Popen(p)
    \/ \E p \in Paths : T_Register(p)
    \/ \E p \in Paths : ProcExit(p)
    \/ \E p \in Paths : T_Communicate(p)
    \/ \E p \in Paths : T_Update(p)
    \/ \E p \in Paths : T_WriteTmp(p)
    \/ \E p \in Paths : T_Replace(p)
    \/ \E p \in Paths : T_Error(p)
    \/ \E p \in Paths : T_Finally(p)
    \/ O_Start
    \/ O_Scan
    \/ O_Load
    \/ O_Open
    \/ O_Dump

SpecOverlap == Init /\ [][NextOverlap]_vars

\* --------------------------------------------------- three pending files
\* Invocations on a directory in which up to three candidate files are
\* created (never modified or removed), without signals, kills, environment
\* faults and overlapping invocations.
NextSiblings ==
    \/ \E p \in Paths : DiskChange(p, 1)
    \/ Main_Start
    \/ Main_Checks
    \/ PD_Scan
    \/ PD_Load
    \/ PD_Merge
    \/ PD_Open
    \/ PD_Dump
    \/ PD_Pending
    \/ PD_Verify7z
    \/ PD_Submit
    \/ PD_Join
    \/ Main_Exit
    \/ \E p \in Paths : T_Begin(p)
    \/ \E p \in Paths : T_Popen(p)
    \/ \E p \in Paths : T_Register(p)
    \/ \E p \in Paths : ProcExit(p)
    \/ \E p \in Paths : T_Communicate(p)
    \/ \E p \in Paths : T_Update(p)
    \/ \E p \in Paths : T_WriteTmp(p)
    \/ \E p \in Paths : T_Replace(p)
    \/ \E p \in Paths : T_Error(p)
    \/ \E p \in Paths : T_Finally(p)

SpecSiblings == Init /\ [][NextSiblings]_vars

\* ------------------------------------------------------------------ claims
RunCompleted == pc = "done" /\ abort = "none"
JustMerged == pc = "open"

\* C1: when a run without cancellation and without task error has completed,
\* the store file holds exactly the reconciled records and every pending file
\* has a terminal result, for every worker count and interleaving.
C1_AllPendingTerminal ==
    (RunCompleted /\ ~exit_flag /\ task_error = {})
    => /\ store.kind = "ok"
       /\ Keys(store.files) = Keys(data)
       /\ \A p \in unchecked_files : store.files[p].result \in Terminal

\* C2: the store file never holds a truncated, empty or mixed content: every
\* persist is atomic.
C2_PersistAtomic == store.kind # "truncated"

\* C3: between two persisted states that are not separated by a
\* reconciliation, a record with a terminal result keeps its result, and no
\* record's timestamp changes.
C3_TerminalStable ==
    [][\A p \in Paths :
         (store.kind = "ok" /\ store'.kind = "ok" /\ store.files[p] # NoRec)
         => /\ store'.files[p] # NoRec
            /\ store'.files[p].timestamp = store.files[p].timestamp
            /\ store.files[p].result \in Terminal
               => store'.files[p].result = store.files[p].result]_vars

\* C4: every key of the previous files mapping is a key after reconciliation.
C4_KeysKept == JustMerged => Keys(existing_files) \subseteq Keys(data)

\* C5: merging the merged records with the same snapshot again changes
\* nothing.
C5_Idempotent ==
    JustMerged => merge_file_records(data, physical_files) = data

\* C6: after reconciliation no path present in the snapshot has result
\* deleted (a reappeared file is unchecked).
C6_ReappearedUnchecked ==
    JustMerged =>
        \A p \in Paths : physical_files[p] # 0 => data[p].result # "deleted"

\* C7: the persisted result of a record never goes from deleted to success,
\* failure or encrypted; it leaves deleted only by becoming unchecked (or by
\* the store file being rewritten by a reconciliation).
C7_DeletionMonotone ==
    [][\A p \in Paths :
         (/\ store.kind = "ok" /\ store.files[p].result = "deleted"
          /\ store'.kind = "ok")
         => store'.files[p].result \notin Terminal]_vars

\* C8: for a path in the previous store and in the snapshot, a different
\* timestamp gives an unchecked record with the snapshot's timestamp
\* whatever the previous result; an equal timestamp leaves a record that is
\* not deleted unchanged.
C8_ChangeDetection ==
    JustMerged =>
        \A p \in Paths :
            (existing_files[p] # NoRec /\ physical_files[p] # 0)
            => IF existing_files[p].timestamp # physical_files[p]
               THEN data[p] = [result |-> "unchecked",
                               timestamp |-> physical_files[p]]
               ELSE existing_files[p].result # "deleted"
                    => data[p] = existing_files[p]

\* both results the claim singles out, each with a changed timestamp
C8_Witness ==
    /\ JustMerged
    /\ \E p \in Paths :
         /\ existing_files[p] # NoRec
         /\ existing_files[p].result = "deleted"
         /\ physical_files[p] \notin {0, existing_files[p].timestamp}
    /\ \E p \in Paths :
         /\ existing_files[p] # NoRec
         /\ existing_files[p].result = "success"
         /\ physical_files[p] \notin {0, existing_files[p].timestamp}

\* the verifier process of p was terminated by signal_handler and its
\* transcript has no encryption keyword
Interrupted(p) == proc[p] = "terminated" /\ ~is_encrypted[p]

\* C9: a task whose verifier process was terminated by the handler never
\* writes failure: what it is about to write and the persisted record of
\* its file are unchecked.
C9_NoFalseFailure ==
    \A p \in Paths :
        Interrupted(p)
        => /\ tpc[p] \in {"writetmp", "replace"}
              => tdata[p][p].result = "unchecked"
           /\ (store.kind = "ok" /\ store.files[p] # NoRec)
              => store.files[p].result = "unchecked"

\* an interrupted task has replaced the store file and ended
C9_Witness ==
    \E p \in Paths :
        /\ Interrupted(p)
        /\ tpc[p] = "done"
        /\ p \notin task_error
        /\ store.kind = "ok"
        /\ store.files[p].result = "unchecked"

\* C10: a run that fails a precondition check leaves the store file as it
\* found it.
C10_NoMutationOnPreconditionFailure ==
    abort \in {"dir_not_exist", "7z_not_found", "FileNotFoundError"}
    => store = store_at_start

\* C11: an invocation that finds an unparseable store file never gets past
\* its load: it ends with an error, the store file is as it was found, and
\* no task is dispatched and no verifier process started.
C11_CorruptStoreAborts ==
    store_at_start.kind = "truncated"
    => /\ pc \in {"exit", "main", "scan", "load", "done"}
       /\ pc = "done" => abort # "none"
       /\ store = store_at_start
       /\ \A p \in Paths : proc[p] = "none" /\ p \notin unchecked_files
                            /\ tpc[p] \notin {"queued"} \cup Active \cup Ended

\* json.load has raised on the unparseable store file
C11_Witness ==
    /\ pc = "done"
    /\ abort = "JSONDecodeError"
    /\ store = TruncatedStore

\* C12: when a run without cancellation in which some task reported an error
\* has completed, the store file is complete, the record of each such task
\* is as reconciliation wrote it, and every other pending file has the
\* terminal result its own task recorded.
C12_ErrorIsolated ==
    (RunCompleted /\ ~exit_flag /\ task_error # {})
    => /\ store.kind = "ok"
       /\ \A p \in task_error : store.files[p] = data[p]
       /\ \A q \in unchecked_files \ task_error :
            store.files[q].result \in Terminal

\* the verifier processes of the run that have not ended
InFlight == {p \in Paths : proc[p] = "running"}

\* C13: a verifier process is started only for a path of the pending list,
\* whose reconciled record is unchecked, and at most once per run; at most
\* `threads` verifier processes are in flight; and when a run without
\* cancellation has completed, the verifier was launched for every path of
\* the pending list.
C13_VerifierInvocations ==
    /\ [](/\ \A p \in Paths :
               proc[p] # "none"
               => p \in unchecked_files /\ data[p].result = "unchecked"
          /\ Cardinality(InFlight) <= threads
          /\ (RunCompleted /\ ~exit_flag)
             => \A p \in unchecked_files :
                    proc[p] = "exited" \/ p \in task_error)
    /\ [][\A p \in Paths :
            (proc'[p] = "running" /\ proc[p] # "running")
            => proc[p] = "none"]_vars

\* a completed sequential run with two pending files, both verified
C13_Witness ==
    /\ RunCompleted /\ ~exit_flag /\ task_error = {}
    /\ threads = 1
    /\ \E p, q \in unchecked_files : p # q /\ proc[p] = "exited"
                                      /\ proc[q] = "exited"

\* process_directory between the merge and the dispatch: lines 264-279
Reconciled == pc \in {"open", "dump", "written", "verify7z"}

\* C14: a path of the previous store whose result is not deleted and which
\* is absent from the snapshot has, after reconciliation, result deleted
\* and its previous timestamp, and is not in the pending list of the run.
C14_AbsentMarkedDeleted ==
    \A p \in Paths :
        (/\ Reconciled
         /\ existing_files[p] # NoRec
         /\ existing_files[p].result # "deleted"
         /\ physical_files[p] = 0)
        => /\ data[p] = [result |-> "deleted",
                         timestamp |-> existing_files[p].timestamp]
           /\ p \notin Pending(data)
           /\ pc = "verify7z" => p \notin unchecked_files

\* the pending list was computed after a verified file and a file never
\* verified were both found absent
C14_Witness ==
    /\ pc = "verify7z"
    /\ \E p, q \in Paths :
         /\ existing_files[p].result \in Terminal
         /\ existing_files[q].result = "unchecked"
         /\ physical_files[p] = 0 /\ physical_files[q] = 0
         /\ data[p].result = "deleted" /\ data[q].result = "deleted"

\* the previous store is what a completed run on this snapshot leaves: each
\* file of the snapshot has a record with its timestamp, each other record
\* is marked deleted, and no record is unchecked
LeftByRunOn(files, snapshot) ==
    \A p \in Paths :
        /\ files[p].result # "unchecked"
        /\ IF snapshot[p] # 0
           THEN files[p] # NoRec /\ files[p].timestamp = snapshot[p]
           ELSE files[p] = NoRec \/ files[p].result = "deleted"

\* C15: a run on a store left by a completed run, with the filesystem as
\* that run saw it and no record unchecked, has an empty pending list,
\* starts no verifier process and, once completed, leaves the store file
\* with the content it had when the run began.
C15_IdleRerun ==
    (/\ store_at_start.kind = "ok"
     /\ LeftByRunOn(existing_files, physical_files))
    => /\ pc = "verify7z" => unchecked_files = {}
       /\ (RunCompleted /\ unchecked_files = {})
          => /\ \A p \in Paths : proc[p] = "none"
             /\ store = store_at_start

\* C16: the step in which a task writes its temporary file, and the step in
\* which a task that has written it is killed or fails before the rename
\* (line 228), leave the store file complete and with the content it had.
C16_CrashBeforeRename ==
    [][\A p \in Paths :
         (\/ p \notin temp /\ p \in temp'
          \/ /\ tpc[p] = "replace"
             /\ \/ tpc'[p] = "killed"
                \/ tpc'[p] = "finally" /\ p \in task_error')
         => store' = store /\ store'.kind = "ok"]_vars

\* the process was killed while a task had written its temporary file and
\* not yet renamed it, after another task had persisted a terminal result
C16_Witness ==
    \E p, q \in Paths :
        /\ tpc[p] = "killed" /\ p \in temp
        /\ tpc[q] = "done" /\ q \notin task_error
        /\ store.kind = "ok"
        /\ store.files[q].result \in Terminal
        /\ store.files[p].result = "unchecked"

\* the tasks that have loaded the store file (lines 205-206) and not yet
\* replaced it (line 228)
InCycle == {p \in Paths : tpc[p] \in {"writetmp", "replace"}}

\* C17: at most one task is between its load of the store file and its
\* replace of it.
C17_WriteLock == Cardinality(InCycle) <= 1

\* signal_handler has set exit_flag and finished its scan of the registry
ScanFinished == exit_flag /\ hpc = "none" /\ abort # "killed"

\* C18: once signal_handler has set the flag and scanned the registry, no
\* verifier process of the run is running without having been sent a
\* termination request.
C18_NoRegistrationRace ==
    ScanFinished => \A p \in Paths : proc[p] # "running"

\* C19: the result a task sets in a loaded record that is not deleted is
\* success for exit status 0, encrypted for a non-zero status with an
\* encryption keyword (whatever exit_flag), failure for a non-zero status
\* without keyword when exit_flag is not set, and the loaded result when it
\* is set; and a persisted result becomes failure only by the replace of a
\* task whose verifier returned non-zero without keyword and which so
\* classified it.
C19_Classification ==
    [][\A p \in Paths :
         /\ (/\ tpc[p] = "update" /\ tpc'[p] = "writetmp"
             /\ store.files[p] # NoRec
             /\ store.files[p].result # "deleted")
            => tdata'[p][p].result =
                 CASE returncode[p] = 0 -> "success"
                   [] returncode[p] # 0 /\ is_encrypted[p] -> "encrypted"
                   [] returncode[p] # 0 /\ ~is_encrypted[p] /\ ~exit_flag
                        -> "failure"
                   [] OTHER -> store.files[p].result
         /\ (/\ store.kind = "ok" /\ store'.kind = "ok"
             /\ store.files[p].result # "failure"
             /\ store'.files[p].result = "failure")
            => /\ tpc[p] = "replace"
               /\ tdata[p][p].result = "failure"
               /\ returncode[p] # 0 /\ ~is_encrypted[p]]_vars

\* with exit_flag set, a task is about to persist encrypted for a non-zero
\* status with keyword, after another task has persisted failure
C19_Witness ==
    \E p, q \in Paths :
        /\ exit_flag
        /\ tpc[p] = "replace"
        /\ returncode[p] # 0 /\ is_encrypted[p]
        /\ tdata[p][p].result = "encrypted"
        /\ tpc[q] = "done" /\ returncode[q] # 0 /\ ~is_encrypted[q]
        /\ store.kind = "ok"
        /\ store.files[q].result = "failure"

\* a step of the run itself: of the main thread, of a task, of a verifier
\* process, or of a signal_handler that has been entered
RunStep ==
    \/ Main_Checks
    \/ PD_Scan
    \/ PD_Load
    \/ PD_Merge
    \/ PD_Open
    \/ PD_Dump
    \/ PD_Pending
    \/ PD_Verify7z
    \/ PD_Submit
    \/ PD_Join
    \/ \E p \in Paths : T_Begin(p)
    \/ \E p \in Paths : T_Popen(p)
    \/ \E p \in Paths : T_Register(p)
    \/ \E p \in Paths : ProcExit(p)
    \/ \E p \in Paths : T_Communicate(p)
    \/ \E p \in Paths : T_Update(p)
    \/ \E p \in Paths : T_WriteTmp(p)
    \/ \E p \in Paths : T_Replace(p)
    \/ \E p \in Paths : T_Finally(p)
    \/ SH_Terminate

\* C20: a run that has not ended can take a step (no thread of it waits for
\* ever: every step moves a thread towards its end, so the run ends once
\* the verifier processes do), and a run that has ended by itself has an
\* empty registry and no task that was queued and neither ran nor returned
\* at its cancellation check.
C20_RunTerminates ==
    /\ pc \notin {"exit", "done"} => ENABLED RunStep
    /\ (pc = "done" /\ abort # "killed")
       => /\ current_processes = {}
          /\ \A p \in Paths : tpc[p] \in Ended \cup {"none"}

=============================================================================
